---- MODULE Spec2Model ----
(***************************************************************************)
(* Model of LesnyDungeon/setup_game.py: the name generator, the session    *)
(* factory new_game, the session loader load_game and the main menu's      *)
(* ev_keydown handler.  Strings are TLA+ strings, Python objects are       *)
(* records, exceptions are records [type, msg]; a call returns a record    *)
(* whose exc field is NoExc when the call returned normally.               *)
(***************************************************************************)
EXTENDS Naturals, Sequences, FiniteSets, TLC

VARIABLES fs, heap, handler, stderr, running, sessions, last

vars == <<fs, heap, handler, stderr, running, sessions, last>>

\* ------------------------------------------------------------------ bounds
MaxPool == 2
MaxSessions == 2
MaxLog == 2
InitialHp == 1

\* --------------------------------------------------------------- constants
map_width == 80
map_height == 43
room_max_size == 10
room_min_size == 6
max_rooms == 30
max_monsters_per_room == 2
max_items_per_room == 2

save_path == "savegame.sav"
combined_names_surnames == "combined_names_surnames.json"

K_q == "K_q"
K_ESCAPE == "K_ESCAPE"
K_c == "K_c"
K_n == "K_n"
OtherKeys == {"K_a", "K_RETURN"}
Keys == {K_q, K_ESCAPE, K_c, K_n} \cup OtherKeys

\* -------------------------------------------------------------- exceptions
Exc(t, m) == [type |-> t, msg |-> m]
NoExc == Exc("none", "")

\* The classes an exception of class t is an instance of.
Bases(t) ==
  CASE t = "FileNotFoundError" ->
         {"FileNotFoundError", "OSError", "Exception", "BaseException"}
    [] t = "PermissionError" ->
         {"PermissionError", "OSError", "Exception", "BaseException"}
    [] t = "SystemExit" -> {"SystemExit", "BaseException"}
    [] OTHER -> {t, "Exception", "BaseException"}

\* An except clause for class cls catches exc.
Catches(cls, exc) == cls \in Bases(exc.type)

\* str(exc): the text an f-string puts in for {exc}.
str(exc) == exc.msg

Raise(e) == [exc |-> e, val |-> [cls |-> "NoneType"]]
Ok(v) == [exc |-> NoExc, val |-> v]
Raised(r) == r.exc # NoExc

\* ------------------------------------------------------------- file system
\* A file is absent, unreadable, or holds data.  Data is a record
\* [enc, body]: "junk" bytes, an "xz" stream around a payload, a "pickle"
\* of an object, or a "json" document.
Absent == [kind |-> "absent"]
Denied == [kind |-> "denied"]
File(d) == [kind |-> "file", data |-> d]
Junk == [enc |-> "junk"]
Xz(p) == [enc |-> "xz", body |-> p]
Pickle(o) == [enc |-> "pickle", body |-> o]
Json(doc) == [enc |-> "json", body |-> doc]

\* open(filename) followed by reading the whole file.
open(files, filename) ==
  LET f == files[filename] IN
  IF f.kind = "absent"
  THEN Raise(Exc("FileNotFoundError",
                 "[Errno 2] No such file or directory: '" \o filename \o "'"))
  ELSE IF f.kind = "denied"
  THEN Raise(Exc("PermissionError",
                 "[Errno 13] Permission denied: '" \o filename \o "'"))
  ELSE Ok(f.data)

json_load(d) ==
  IF d.enc = "json" THEN Ok(d.body)
  ELSE Raise(Exc("JSONDecodeError", "Expecting value: line 1 column 1 (char 0)"))

\* data[key] on the parsed document.
getitem(doc, key) ==
  IF key \in doc.keys
  THEN Ok(IF key = "names" THEN doc.names ELSE doc.surnames)
  ELSE Raise(Exc("KeyError", "'" \o key \o "'"))

\* random.choice(seq), r being the random draw.
random_choice(seq, r) ==
  IF Len(seq) = 0
  THEN Raise(Exc("IndexError", "Cannot choose from an empty sequence"))
  ELSE Ok(seq[(r % Len(seq)) + 1])

load_json(files, filename) ==
  LET parse(f) == IF Raised(f) THEN f ELSE json_load(f.val)
  IN parse(open(files, filename))

\* f"{random_name} {random_surname}"
full_name_nospace(random_name, random_surname) == random_name \o random_surname

full_name(random_name, random_surname) == random_name \o " " \o random_surname

get_random_combination(files, combined_file, r1, r2) ==
  LET format(random_name, random_surname) ==
        IF Raised(random_name) THEN random_name
        ELSE IF Raised(random_surname) THEN random_surname
        ELSE Ok(full_name(random_name.val, random_surname.val))
      choose(names, surnames) ==
        IF Raised(names) THEN names
        ELSE IF Raised(surnames) THEN surnames
        ELSE format(random_choice(names.val, r1),
                    random_choice(surnames.val, r2))
      lookup(data) ==
        IF Raised(data) THEN data
        ELSE choose(getitem(data.val, "names"), getitem(data.val, "surnames"))
  IN lookup(load_json(files, combined_file))

\* -------------------------------------------------------------------- heap
\* Python objects that are shared by reference live in the heap, a sequence
\* indexed by object id.  The template player entity_factories.player is
\* object 1 and its fighter component is object 2.
PlayerTemplate == 1
TemplateFighter == 2
InitialHeap ==
  << [cls |-> "Actor", fighter |-> TemplateFighter],
     [cls |-> "Fighter", hp |-> InitialHp] >>

\* The objects reachable from entity id.
Reach(h, id) == {id, h[id].fighter}

\* What the game observes of entity id: its fighter's hit points.
View(h, id) == h[h[id].fighter].hp

\* copy.deepcopy(entity): the entity and its components are duplicated.
deepcopy(h, id) ==
  LET f == Len(h) + 1
      h1 == Append(h, h[h[id].fighter])
      h2 == Append(h1, [h[id] EXCEPT !.fighter = f])
  IN [heap |-> h2, id |-> f + 1]

\* ------------------------------------------------------------ collaborators
Faults == {"none", "generate_floor", "update_fov"}

NoWorld == [cls |-> "unset"]
NoObject == [cls |-> "NoneType"]

\* Engine(player=player): an empty message log, no world yet.
Engine(player) ==
  [cls |-> "Engine", player |-> player, game_world |-> NoWorld,
   fov_updates |-> 0, fov_floor |-> 0, message_log |-> <<>>]

GameWorld(mr, rmin, rmax, mw, mh, mm, mi) ==
  [cls |-> "GameWorld", max_rooms |-> mr, room_min_size |-> rmin,
   room_max_size |-> rmax, map_width |-> mw, map_height |-> mh,
   max_monsters_per_room |-> mm, max_items_per_room |-> mi,
   current_floor |-> 0]

\* engine.game_world.generate_floor(): one more floor, or an exception.
generate_floor(engine, fault) ==
  IF fault = "generate_floor"
  THEN Raise(Exc("RuntimeError", "floor generation failed"))
  ELSE Ok([engine EXCEPT !.game_world.current_floor = @ + 1])

\* engine.update_fov(): recomputes the visible area of the current floor.
update_fov(engine, fault) ==
  IF fault = "update_fov"
  THEN Raise(Exc("RuntimeError", "fov recompute failed"))
  ELSE Ok([engine EXCEPT !.fov_updates = @ + 1,
                         !.fov_floor = engine.game_world.current_floor])

\* engine.message_log.add_message(text, fg)
add_message(engine, text, fg) ==
  [engine EXCEPT !.message_log = Append(@, [text |-> text, fg |-> fg])]

\* ----------------------------------------------------------------- new_game
Env(files, h, fault, r1, r2) ==
  [files |-> files, heap |-> h, fault |-> fault, r1 |-> r1, r2 |-> r2]

Step(exc, val, steps) == [exc |-> exc, val |-> val, steps |-> steps]

\* copy.copy(entity): the copy shares the components of the original.
player_copy_shallow(h) ==
  [heap |-> Append(h, h[PlayerTemplate]), id |-> Len(h) + 1]

\* player = copy.deepcopy(entity_factories.player)
player_copy(h) == deepcopy(h, PlayerTemplate)

\* engine = Engine(player=player); engine.game_world = GameWorld(...)
build_engine(player) ==
  [Engine(player) EXCEPT !.game_world =
     GameWorld(max_rooms, room_min_size, room_max_size, map_width,
               map_height, max_monsters_per_room, max_items_per_room)]

floor_and_fov_swapped(engine, fault) ==
  LET s2 == <<"update_fov", "generate_floor">>
      second(g) ==
        IF Raised(g) THEN Step(g.exc, NoObject, s2) ELSE Step(NoExc, g.val, s2)
      first(u) ==
        IF Raised(u) THEN Step(u.exc, NoObject, <<"update_fov">>)
        ELSE second(generate_floor(u.val, fault))
  IN first(update_fov(engine, fault))

\* engine.game_world.generate_floor(); engine.update_fov()
floor_and_fov(engine, fault) ==
  LET s2 == <<"generate_floor", "update_fov">>
      second(u) ==
        IF Raised(u) THEN Step(u.exc, NoObject, s2) ELSE Step(NoExc, u.val, s2)
      first(g) ==
        IF Raised(g) THEN Step(g.exc, NoObject, <<"generate_floor">>)
        ELSE second(update_fov(g.val, fault))
  IN first(generate_floor(engine, fault))

\* f"Hello and welcome, {hero_name}, to yet another dungeon!"
welcome(hero_name) ==
  "Hello and welcome, " \o hero_name \o ", to yet another dungeon!"

\* data = load_json(...); hero_name = get_random_combination(...);
\* engine.message_log.add_message(welcome line, color.welcome_text)
greet(engine, files, r1, r2) ==
  LET s2 == <<"load_json", "get_random_combination">>
      second(hero_name) ==
        IF Raised(hero_name) THEN Step(hero_name.exc, NoObject, s2)
        ELSE Step(NoExc,
                  add_message(engine, welcome(hero_name.val), "welcome_text"),
                  Append(s2, "add_message"))
      first(data) ==
        IF Raised(data) THEN Step(data.exc, NoObject, <<"load_json">>)
        ELSE second(get_random_combination(files, combined_names_surnames,
                                           r1, r2))
  IN first(load_json(files, combined_names_surnames))

\* The result of a call that builds a session: the exception raised or the
\* engine returned, the heap afterwards and the calls made, in order.  The
\* objects of a call that raises are garbage and leave the heap as it was.
Built(exc, engine, h, steps) ==
  [exc |-> exc, val |-> engine, heap |-> h, steps |-> steps]

new_game(env) ==
  LET s0 == <<"deepcopy", "Engine", "GameWorld">>
      named(cp, f, g) ==
        IF Raised(g)
        THEN Built(g.exc, NoObject, env.heap, s0 \o f.steps \o g.steps)
        ELSE Built(NoExc, g.val, cp.heap, s0 \o f.steps \o g.steps)
      generated(cp, f) ==
        IF Raised(f) THEN Built(f.exc, NoObject, env.heap, s0 \o f.steps)
        ELSE named(cp, f, greet(f.val, env.files, env.r1, env.r2))
      copied(cp) ==
        generated(cp, floor_and_fov(build_engine(cp.id), env.fault))
  IN copied(player_copy(env.heap))

\* ---------------------------------------------------------------- load_game
lzma_decompress(d) ==
  IF d.enc = "xz" THEN Ok(d.body)
  ELSE Raise(Exc("LZMAError", "Input format not supported by decoder"))

\* pickle.loads(payload): the pickled object graph is rebuilt; a pickled
\* session gets a player entity of its own.
pickle_loads(h, p) ==
  IF p.enc # "pickle"
  THEN [exc |-> Exc("UnpicklingError", "invalid load key, 'x'."),
        val |-> NoObject, heap |-> h]
  ELSE IF p.body.cls # "Engine"
  THEN [exc |-> NoExc, val |-> p.body, heap |-> h]
  ELSE LET f == Len(h) + 1
           h1 == Append(h, [cls |-> "Fighter", hp |-> p.body.hp])
           h2 == Append(h1, [cls |-> "Actor", fighter |-> f])
           e == [build_engine(f + 1) EXCEPT
                   !.game_world.current_floor = p.body.current_floor,
                   !.fov_updates = p.body.fov_updates,
                   !.fov_floor = p.body.current_floor,
                   !.message_log = p.body.message_log]
       IN [exc |-> NoExc, val |-> e, heap |-> h2]

isinstance_unchecked(obj, cls) == TRUE

isinstance(obj, cls) == obj.cls = cls

load_game(files, h, filename) ==
  LET s3 == <<"open", "decompress", "loads">>
      checked(engine) ==
        IF Raised(engine) THEN Built(engine.exc, NoObject, h, s3)
        ELSE IF ~isinstance(engine.val, "Engine")
        THEN Built(Exc("AssertionError", ""), NoObject, h, Append(s3, "assert"))
        ELSE Built(NoExc, engine.val, engine.heap, Append(s3, "assert"))
      decompressed(d) ==
        IF Raised(d) THEN Built(d.exc, NoObject, h, <<"open", "decompress">>)
        ELSE checked(pickle_loads(h, d.val))
      opened(f) ==
        IF Raised(f) THEN Built(f.exc, NoObject, h, <<"open">>)
        ELSE decompressed(lzma_decompress(f.val))
  IN opened(open(files, filename))

\* ----------------------------------------------------------------- MainMenu
MainMenu == [type |-> "MainMenu"]
None == [type |-> "None"]
MainGameEventHandler(engine) ==
  [type |-> "MainGameEventHandler", engine |-> engine]
PopupMessage(parent, text) ==
  [type |-> "PopupMessage", parent |-> parent, text |-> text]

no_saved_game == "No saved game to load."
failed_prefix == "Failed to load save:\n"

\* What one ev_keydown call does: the exception that leaves it or the value
\* it returns, the heap afterwards, what it writes to stderr, the module
\* functions it calls and the steps those take.
Out(exc, ret, h, err, calls, steps) ==
  [exc |-> exc, ret |-> ret, heap |-> h, err |-> err, calls |-> calls,
   steps |-> steps]

\* traceback.print_exc(): the exception is written to stderr.
print_exc(exc) == <<exc>>

except_clause_generic_first(exc) ==
  IF Catches("Exception", exc) THEN "Exception"
  ELSE IF Catches("FileNotFoundError", exc) THEN "FileNotFoundError"
  ELSE "none"

\* The except clause of the continue branch that handles exc: the first one,
\* in source order, whose class exc is an instance of.
except_clause(exc) ==
  IF Catches("FileNotFoundError", exc) THEN "FileNotFoundError"
  ELSE IF Catches("Exception", exc) THEN "Exception"
  ELSE "none"

\* elif event.sym == tcod.event.K_c: try ... except ... except ...
on_continue(self, env) ==
  LET calls == <<"load_game">>
      loaded(g) ==
        IF ~Raised(g)
        THEN Out(NoExc, MainGameEventHandler(g.val), g.heap, <<>>, calls, g.steps)
        ELSE IF except_clause(g.exc) = "FileNotFoundError"
        THEN Out(NoExc, PopupMessage(self, no_saved_game), env.heap, <<>>,
                 calls, g.steps)
        ELSE IF except_clause(g.exc) = "Exception"
        THEN Out(NoExc, PopupMessage(self, failed_prefix \o str(g.exc)),
                 env.heap, print_exc(g.exc), calls, g.steps)
        ELSE Out(g.exc, None, env.heap, <<>>, calls, g.steps)
  IN loaded(load_game(env.files, env.heap, save_path))

on_new_guarded(self, env) ==
  LET made(g) ==
        IF Raised(g)
        THEN Out(NoExc, PopupMessage(self, "Failed to start:\n" \o str(g.exc)),
                 env.heap, print_exc(g.exc), <<"new_game">>, g.steps)
        ELSE Out(NoExc, MainGameEventHandler(g.val), g.heap, <<>>,
                 <<"new_game">>, g.steps)
  IN made(new_game(env))

on_new_swallow(self, env) ==
  LET made(g) ==
        IF Raised(g)
        THEN Out(NoExc, None, env.heap, <<>>, <<"new_game">>, g.steps)
        ELSE Out(NoExc, MainGameEventHandler(g.val), g.heap, <<>>,
                 <<"new_game">>, g.steps)
  IN made(new_game(env))

\* elif event.sym == tcod.event.K_n: no try around new_game()
on_new(self, env) ==
  LET made(g) ==
        IF Raised(g)
        THEN Out(g.exc, None, env.heap, <<>>, <<"new_game">>, g.steps)
        ELSE Out(NoExc, MainGameEventHandler(g.val), g.heap, <<>>,
                 <<"new_game">>, g.steps)
  IN made(new_game(env))

quit_keys_q_only == {K_q}

\* event.sym in (tcod.event.K_q, tcod.event.K_ESCAPE)
quit_keys == {K_q, K_ESCAPE}

ev_keydown_default_new(self, sym, env) ==
  IF sym \in quit_keys
  THEN Out(Exc("SystemExit", ""), None, env.heap, <<>>, <<>>, <<>>)
  ELSE IF sym = K_c THEN on_continue(self, env)
  ELSE on_new(self, env)

ev_keydown(self, sym, env) ==
  IF sym \in quit_keys
  THEN Out(Exc("SystemExit", ""), None, env.heap, <<>>, <<>>, <<>>)
  ELSE IF sym = K_c THEN on_continue(self, env)
  ELSE IF sym = K_n THEN on_new(self, env)
  ELSE Out(NoExc, None, env.heap, <<>>, <<>>, <<>>)

\* The event loop's handler = handler.handle_events(event): the handler the
\* call returns becomes the active one; None, or an exception, leaves it.
handle_events(self, out) ==
  IF Raised(out) \/ out.ret = None THEN self ELSE out.ret

\* -------------------------------------------------------------------- state
BoundedSeq(S, n) == UNION {[1..k -> S] : k \in 0..n}

FirstNames == {"Ada", "Grace"}
Surnames == {"Lovelace", "Hopper"}

Document(keys, names, surnames) ==
  [keys |-> keys, names |-> names, surnames |-> surnames]

\* The name-pool documents: both arrays, or one of them or both missing.
Documents ==
  {Document({"names", "surnames"}, n, s) :
     n \in BoundedSeq(FirstNames, MaxPool), s \in BoundedSeq(Surnames, MaxPool)}
  \cup {Document({"names"}, <<"Ada">>, <<>>),
        Document({"surnames"}, <<>>, <<"Lovelace">>),
        Document({}, <<>>, <<>>)}

PoolFiles == {Absent, File(Junk)} \cup {File(Json(d)) : d \in Documents}

\* The name-pool files a session is built from: missing, unparsable, without
\* the "names" array, with an empty array, a singleton pool and a larger one.
SessionPoolFiles ==
  {Absent, File(Junk),
   File(Json(Document({"surnames"}, <<>>, <<"Lovelace">>))),
   File(Json(Document({"names", "surnames"}, <<"Ada">>, <<>>))),
   File(Json(Document({"names", "surnames"}, <<"Ada">>, <<"Lovelace">>))),
   File(Json(Document({"names", "surnames"}, <<"Ada", "Grace">>,
                      <<"Hopper">>)))}

\* A session as save_game pickled it, and another kind of object.
SavedEngine ==
  [cls |-> "Engine", hp |-> InitialHp, current_floor |-> 1, fov_updates |-> 1,
   message_log |-> <<[text |-> welcome("Ada Lovelace"), fg |-> "welcome_text"]>>]
SavedOther == [cls |-> "dict"]

SaveFiles ==
  {Absent, Denied, File(Junk), File(Xz(Junk)), File(Xz(Pickle(SavedOther))),
   File(Xz(Pickle(SavedEngine)))}

FileNames == {save_path, combined_names_surnames}

Last(op, sym, fault, out, name) ==
  [op |-> op, sym |-> sym, fault |-> fault, exc |-> out.exc, ret |-> out.ret,
   err |-> out.err, calls |-> out.calls, steps |-> out.steps, name |-> name]

Idle == Out(NoExc, None, InitialHeap, <<>>, <<>>, <<>>)

Init ==
  /\ \E save \in SaveFiles, pool \in SessionPoolFiles :
       fs = [f \in FileNames |-> IF f = save_path THEN save ELSE pool]
  /\ heap = InitialHeap
  /\ handler = MainMenu
  /\ stderr = <<>>
  /\ running = TRUE
  /\ sessions = <<>>
  /\ last = Last("start", "", "none", Idle, "")

Session(engine, origin) == [engine |-> engine, origin |-> origin]

\* The effect of one ev_keydown call on the program's state.  An exception
\* leaves the handler as it was; SystemExit ends the process, and what
\* another exception does to it is up to the caller (survives).
Dispatch(sym, fault, survives, out) ==
  /\ heap' = out.heap
  /\ stderr' = stderr \o out.err
  /\ handler' = handle_events(handler, out)
  /\ running' = IF ~Raised(out) THEN TRUE
                ELSE IF out.exc.type = "SystemExit" THEN FALSE
                ELSE survives
  /\ sessions' = IF out.ret.type = "MainGameEventHandler"
                 THEN Append(sessions, Session(out.ret.engine, out.calls[1]))
                 ELSE sessions
  /\ last' = Last("ev_keydown", sym, fault, out, "")

\* A key event reaches the main menu while it is the active handler.
EvKeydown ==
  /\ running
  /\ handler = MainMenu
  /\ \E sym \in Keys :
     \E fault \in IF sym = K_n THEN Faults ELSE {"none"},
        r1, r2 \in IF sym = K_n THEN 0..(MaxPool - 1) ELSE {0},
        survives \in IF sym \in {K_c, K_n} THEN BOOLEAN ELSE {FALSE} :
       /\ sym \in {K_c, K_n} =>
            Len(sessions) < MaxSessions /\ Len(stderr) < MaxLog
       /\ Dispatch(sym, fault, survives,
                   ev_keydown(handler, sym, Env(fs, heap, fault, r1, r2)))
  /\ UNCHANGED fs

Returned(fault, g) ==
  /\ heap' = g.heap
  /\ sessions' = IF Raised(g) THEN sessions
                 ELSE Append(sessions, Session(g.val, "new_game"))
  /\ last' = Last("new_game", "", fault,
                  Out(g.exc, MainGameEventHandler(g.val), g.heap, <<>>,
                      <<"new_game">>, g.steps), "")

\* new_game() called directly.
NewGameCall ==
  /\ running
  /\ Len(sessions) < MaxSessions
  /\ \E fault \in Faults, r1, r2 \in 0..(MaxPool - 1) :
       Returned(fault, new_game(Env(fs, heap, fault, r1, r2)))
  /\ UNCHANGED <<fs, handler, stderr, running>>

Named(n) ==
  last' = Last("get_random_combination", "", "none",
               Out(n.exc, None, heap, <<>>, <<>>, <<>>),
               IF Raised(n) THEN "" ELSE n.val)

\* get_random_combination(combined_file) called directly.
GetRandomCombinationCall ==
  /\ running
  /\ \E r1, r2 \in 0..(MaxPool - 1) :
       Named(get_random_combination(fs, combined_names_surnames, r1, r2))
  /\ UNCHANGED <<fs, heap, handler, stderr, running, sessions>>

\* The popup is dismissed: its parent becomes the active handler again.
PopupDismiss ==
  /\ running
  /\ handler.type = "PopupMessage"
  /\ handler' = handler.parent
  /\ UNCHANGED <<fs, heap, stderr, running, sessions, last>>

\* The entities the game can reach: the template and the sessions' players.
Players ==
  {sessions[i].engine.player :
     i \in {j \in 1..Len(sessions) : sessions[j].engine.cls = "Engine"}}
Roots == {PlayerTemplate} \cup Players

\* The game changes an entity: its fighter loses a hit point (once for each
\* fighter, which keeps the model finite).
MutateEntity ==
  /\ running
  /\ \E id \in Roots :
       /\ View(heap, id) = InitialHp
       /\ heap' = [heap EXCEPT ![heap[id].fighter].hp = @ - 1]
  /\ UNCHANGED <<fs, handler, stderr, running, sessions, last>>

Next ==
  \/ EvKeydown
  \/ NewGameCall
  \/ PopupDismiss
  \/ MutateEntity

Spec == Init /\ [][Next]_vars

\* The name generator alone, over every name-pool file.
InitNames ==
  /\ \E pool \in PoolFiles :
       fs = [f \in FileNames |-> IF f = save_path THEN Absent ELSE pool]
  /\ heap = InitialHeap
  /\ handler = MainMenu
  /\ stderr = <<>>
  /\ running = TRUE
  /\ sessions = <<>>
  /\ last = Last("start", "", "none", Idle, "")

NextNames == GetRandomCombinationCall

SpecNames == InitNames /\ [][NextNames]_vars

\* ------------------------------------------------------------------- claims
SaveFile == fs[save_path]
PoolFile == fs[combined_names_surnames]

KeyPressed(sym) == last.op = "ev_keydown" /\ last.sym = sym

\* The save file decompresses to a payload.
Decompresses == SaveFile.kind = "file" /\ SaveFile.data.enc = "xz"

\* The payload is the pickle of a session.
HoldsSession ==
  /\ Decompresses
  /\ SaveFile.data.body.enc = "pickle"
  /\ SaveFile.data.body.body.cls = "Engine"

\* The name-pool file parses and has both arrays, neither of them empty.
PoolUsable ==
  /\ PoolFile.kind = "file"
  /\ PoolFile.data.enc = "json"
  /\ PoolFile.data.body.keys = {"names", "surnames"}
  /\ PoolFile.data.body.names # <<>>
  /\ PoolFile.data.body.surnames # <<>>

InMenu == handler = MainMenu \/ (handler.type = "PopupMessage" /\ handler.parent = MainMenu)

\* C1: the continue key with no save file returns the popup "No saved game to
\* load." whose parent is the menu, the menu (or that popup over it) stays the
\* active handler, nothing is written to stderr and no "Failed to load save"
\* popup is produced.
C1_NoSavedGame ==
  (KeyPressed(K_c) /\ SaveFile = Absent) =>
     /\ last.exc = NoExc
     /\ last.ret = [type |-> "PopupMessage", parent |-> MainMenu,
                    text |-> "No saved game to load."]
     /\ last.err = <<>>
     /\ stderr = <<>>
     /\ handler \in {MainMenu, last.ret}

C1_Witness ==
  KeyPressed(K_c) /\ SaveFile = Absent /\ handler.type = "PopupMessage"

\* C2: the continue key with a save file that decompresses but does not
\* deserialize to a session yields the generic failure: it is logged to stderr,
\* no exception leaves ev_keydown, and the popup carries a non-empty detail
\* after the "Failed to load save:" prefix.
C2_GarbageDetail ==
  (KeyPressed(K_c) /\ Decompresses /\ ~HoldsSession) =>
     /\ last.exc = NoExc
     /\ last.err # <<>>
     /\ last.ret.type = "PopupMessage"
     /\ Len(last.ret.text) > Len("Failed to load save:\n")
     /\ SubSeq(last.ret.text, 1, Len("Failed to load save:\n"))
          = "Failed to load save:\n"

\* C3: the continue key leads to the in-game handler exactly when the save
\* file holds a session, and every in-game handler, and every session that
\* load_game returned, holds an Engine.
C3_LoadedIsEngine ==
  /\ KeyPressed(K_c) =>
       /\ (last.ret.type = "MainGameEventHandler") <=> HoldsSession
       /\ last.ret.type = "MainGameEventHandler" =>
            last.ret.engine.cls = "Engine"
  /\ handler.type = "MainGameEventHandler" => handler.engine.cls = "Engine"
  /\ \A i \in 1..Len(sessions) :
       sessions[i].origin = "load_game" => sessions[i].engine.cls = "Engine"

C3_Witness ==
  /\ KeyPressed(K_c)
  /\ handler.type = "MainGameEventHandler"
  /\ handler.engine.cls = "Engine"
  /\ sessions[Len(sessions)].origin = "load_game"

\* The welcome lines the name pool allows.
WelcomeLines ==
  {"Hello and welcome, " \o PoolFile.data.body.names[i] \o " "
     \o PoolFile.data.body.surnames[j] \o ", to yet another dungeon!" :
     i \in 1..Len(PoolFile.data.body.names),
     j \in 1..Len(PoolFile.data.body.surnames)}

NewSessions == {i \in 1..Len(sessions) : sessions[i].origin = "new_game"}

C4_SessionShape ==
  \A i \in NewSessions :
     LET e == sessions[i].engine IN
     /\ Reach(heap, e.player) \cap Reach(heap, PlayerTemplate) = {}
     /\ e.game_world.current_floor = 1
     /\ e.message_log # <<>>
     /\ \E k \in 1..Len(e.message_log) : e.message_log[k].text \in WelcomeLines

C4_CallKeepsTemplate ==
  sessions' # sessions =>
     /\ heap'[PlayerTemplate] = heap[PlayerTemplate]
     /\ heap'[TemplateFighter] = heap[TemplateFighter]
     /\ \A i \in 1..Len(sessions) : sessions'[i] = sessions[i]

C4_MutationIsolated ==
  (sessions' = sessions /\ heap' # heap) =>
     \A a, b \in Roots :
        (a # b /\ View(heap', a) # View(heap, a)) => View(heap', b) = View(heap, b)

\* C4: every session new_game returns, whatever calls came before, has a
\* player that shares no object with the template (the call leaves the
\* template as it was, and a later change to one entity changes no other),
\* one generated floor, and a message log that holds the welcome line.
C4_FreshSession ==
  /\ []C4_SessionShape
  /\ [][C4_CallKeepsTemplate]_vars
  /\ [][C4_MutationIsolated]_vars

C4_Witness ==
  /\ Len(sessions) = 2
  /\ NewSessions = {1, 2}
  /\ View(heap, sessions[2].engine.player) # View(heap, PlayerTemplate)
  /\ View(heap, sessions[1].engine.player) = View(heap, PlayerTemplate)

\* C5: with both arrays non-empty, get_random_combination returns a name of
\* the pool, one space and a surname of the pool; with the pools ["Ada"] and
\* ["Lovelace"] it returns "Ada Lovelace".
C5_NameSpaceSurname ==
  (last.op = "get_random_combination" /\ PoolUsable) =>
     /\ last.exc = NoExc
     /\ \E i \in 1..Len(PoolFile.data.body.names),
           j \in 1..Len(PoolFile.data.body.surnames) :
          last.name = PoolFile.data.body.names[i] \o " "
                        \o PoolFile.data.body.surnames[j]
     /\ (PoolFile.data.body.names = <<"Ada">>
         /\ PoolFile.data.body.surnames = <<"Lovelace">>)
          => last.name = "Ada Lovelace"

C5_Witness ==
  /\ last.op = "get_random_combination"
  /\ PoolFile.kind = "file"
  /\ PoolFile.data.enc = "json"
  /\ PoolFile.data.body.names = <<"Ada">>
  /\ PoolFile.data.body.surnames = <<"Lovelace">>
  /\ last.name = "Ada Lovelace"

MissingSaveRecovered ==
  (KeyPressed(K_c) /\ SaveFile = Absent) =>
     /\ last.exc = NoExc
     /\ last.ret.type = "PopupMessage"
     /\ last.ret.parent = MainMenu
     /\ InMenu
     /\ running

\* C6 as stated: a missing save file (continue key) and a missing name-pool
\* file (new key) are both surfaced as a message at the menu, which stays the
\* active handler; no session starts and the process keeps running.
C6_NotFoundRecoverable ==
  /\ MissingSaveRecovered
  /\ (KeyPressed(K_n) /\ last.fault = "none" /\ PoolFile = Absent) =>
       /\ last.exc = NoExc
       /\ last.ret.type = "PopupMessage"
       /\ last.ret.parent = MainMenu
       /\ InMenu
       /\ running

\* C6 amended: a missing save file on the continue key is surfaced as a popup
\* over the menu, no session starts and the process keeps running; a missing
\* name-pool file on the new key is not handled by the menu: the
\* FileNotFoundError leaves ev_keydown, with no popup, nothing logged and no
\* session, and the menu is still the handler.
C6_MissingSaveOnly ==
  /\ MissingSaveRecovered
  /\ (KeyPressed(K_n) /\ last.fault = "none" /\ PoolFile = Absent) =>
       /\ last.exc.type = "FileNotFoundError"
       /\ last.ret = None
       /\ last.err = <<>>
       /\ handler = MainMenu

C6_Witness ==
  /\ KeyPressed(K_n)
  /\ last.fault = "none"
  /\ PoolFile = Absent
  /\ last.exc.type = "FileNotFoundError"
  /\ running

\* The exception new_game raises, "none" when it returns.
NewGameFailure ==
  IF last.fault # "none" THEN "RuntimeError"
  ELSE IF PoolFile = Absent THEN "FileNotFoundError"
  ELSE IF PoolFile.data.enc # "json" THEN "JSONDecodeError"
  ELSE IF PoolFile.data.body.keys # {"names", "surnames"} THEN "KeyError"
  ELSE IF ~PoolUsable THEN "IndexError"
  ELSE "none"

\* C7: on the new key new_game is called once; when it returns, the handler
\* returned is the in-game handler around the session it built; when a step
\* of it raises, that exception leaves ev_keydown: no popup, nothing logged,
\* no handler returned.
C7_NewKeyUnguarded ==
  KeyPressed(K_n) =>
     /\ last.calls = <<"new_game">>
     /\ last.err = <<>>
     /\ last.exc.type = NewGameFailure
     /\ NewGameFailure # "none" => last.ret = None /\ handler = MainMenu
     /\ NewGameFailure = "none" =>
          /\ last.ret.type = "MainGameEventHandler"
          /\ last.ret.engine.cls = "Engine"
          /\ handler = last.ret
          /\ \E i \in NewSessions : sessions[i].engine = last.ret.engine

C7_Witness ==
  /\ KeyPressed(K_n)
  /\ last.fault = "update_fov"
  /\ last.exc.type = "RuntimeError"
  /\ last.ret = None

C8_OtherKeyStep ==
  (last' # last /\ last'.op = "ev_keydown" /\ last'.sym \in OtherKeys) =>
     /\ UNCHANGED <<fs, heap, handler, stderr, running, sessions>>
     /\ last'.exc = NoExc
     /\ last'.ret = None
     /\ last'.err = <<>>
     /\ last'.calls = <<>>
     /\ last'.steps = <<>>

\* C8: a key other than quit, escape, continue and new changes nothing: no
\* handler is returned, no file is read, no session is made, no popup is
\* shown and nothing is written to stderr.
C8_OtherKeyNoEffect == [][C8_OtherKeyStep]_vars

C8_Witness == last.op = "ev_keydown" /\ last.sym \in OtherKeys /\ running

C9_QuitStep ==
  (last' # last /\ last'.op = "ev_keydown" /\ last'.sym \in {K_q, K_ESCAPE}) =>
     /\ last'.exc = [type |-> "SystemExit", msg |-> ""]
     /\ ~running'
     /\ last'.ret = None
     /\ last'.calls = <<>>
     /\ last'.steps = <<>>
     /\ last'.err = <<>>
     /\ UNCHANGED <<fs, heap, handler, stderr, sessions>>

\* C9: from the menu the quit key and the escape key raise SystemExit, which
\* ends the process, whether or not a save file exists, with no load, no new
\* session and no handler returned; nothing happens afterwards.
C9_QuitExits ==
  /\ [][C9_QuitStep]_vars
  /\ []((last.op = "ev_keydown" /\ last.sym \in {K_q, K_ESCAPE}) =>
          ~running /\ ~ENABLED Next)

C9_Witness ==
  /\ KeyPressed(K_ESCAPE)
  /\ SaveFile # Absent
  /\ ~running

StepOrder ==
  <<"deepcopy", "Engine", "GameWorld", "generate_floor", "update_fov",
    "load_json", "get_random_combination", "add_message">>

CalledNewGame == last.calls = <<"new_game">>

\* C10: a new_game call takes its steps in one order: player copy, world
\* construction, floor generation, one visibility recompute on the generated
\* floor, name generation, welcome line; when floor generation raises, no
\* session is returned and neither the recompute nor the welcome line happened.
C10_StepOrder ==
  CalledNewGame =>
     /\ Len(last.steps) >= 4
     /\ last.steps = SubSeq(StepOrder, 1, Len(last.steps))
     /\ last.exc = NoExc =>
          /\ last.steps = StepOrder
          /\ last.ret.engine.fov_updates = 1
          /\ last.ret.engine.fov_floor = 1
          /\ last.ret.engine.game_world.current_floor = 1
          /\ Len(last.ret.engine.message_log) = 1
     /\ last.fault = "generate_floor" =>
          /\ last.exc.type = "RuntimeError"
          /\ last.ret = None \/ last.ret.engine = NoObject
          /\ \A k \in 1..Len(last.steps) :
               last.steps[k] \notin {"update_fov", "add_message"}

C10_Witness ==
  /\ CalledNewGame
  /\ last.fault = "generate_floor"
  /\ last.exc # NoExc
  /\ Len(sessions) = 1

====
